---- MODULE Spec2Model ----
(***************************************************************************)
(* GNSS logger (src/GNSS.py): the ingest loop, the database session, the   *)
(* durable buffer file buffer.csv and its replay into the database.        *)
(*                                                                         *)
(* Representation.  An NMEA line is the sequence of its comma-separated    *)
(* fields, each a string.  float(text) is the table FloatTable, whose      *)
(* values are thousandths.  A Python value that may be None is <<>> (None) *)
(* or <<v>>.  A CSV field of buffer.csv is <<>> (the empty string) or      *)
(* <<"f", v>> (the text of the float v).  A timestamp is the number of the *)
(* fix it was stamped on.                                                  *)
(***************************************************************************)
EXTENDS Integers, Sequences, FiniteSets, TLC

\* ------------------------------------------------------------- bounds
MaxFix == 1        \* fixes stamped by the loop in one run
MaxTick == 15      \* longest time one sensor read may take, in time units

\* ------------------------------------------------------------- program constants
FLUSH_INTERVAL == 30
KNOTS_FACTOR == 1852   \* 1.852, in thousandths
GGA_MIN_FIELDS == 10
RMC_KNOTS_INDEX == 7

None == <<>>
Some(v) == <<v>>
EmptyStr == <<>>
Text(v) == <<"f", v>>

Min(a, b) == IF a < b THEN a ELSE b

\* ------------------------------------------------------------- sensor lines
GGA_FULL == <<"$GPGGA", "123519", "4807.038", "N", "01131.000", "E", "1", "08", "0.9", "545.4", "M", "46.9", "M", "", "*47">>
GGA_SOUTHWEST == <<"$GNGGA", "123519", "4807.038", "S", "01131.000", "W", "1", "08", "0.9", "", "M", "46.9", "M", "", "*47">>
GGA_NOFIX == <<"$GPGGA", "123519", "", "", "", "", "0", "00", "", "", "M", "", "M", "", "*66">>
GGA_SHORT == <<"$GPGGA", "123519", "4807.038", "N">>
RMC_10 == <<"$GPRMC", "123519", "A", "4807.038", "N", "01131.000", "E", "10.0", "084.4", "230394", "003.1", "W*6A">>
RMC_20 == <<"$GNRMC", "123519", "A", "4807.038", "N", "01131.000", "E", "20.0", "084.4", "230394", "003.1", "W*6A">>
RMC_NOSPEED == <<"$GPRMC", "123519", "V", "", "", "", "", "", "", "230394", "", "N*53">>
GSV_OTHER == <<"$GPGSV", "3", "1", "11">>
GGA_BADLAT == <<"$GPGGA", "123519", "48O7.038", "N", "01131.000", "E", "1", "08", "0.9", "545.4", "M", "46.9", "M", "", "*47">>
GGA_BADALT == <<"$GPGGA", "123519", "4807.038", "N", "01131.000", "E", "1", "08", "0.9", "54?.4", "M", "46.9", "M", "", "*47">>
RMC_BADKNOTS == <<"$GPRMC", "123519", "A", "4807.038", "N", "01131.000", "E", "1O.0", "084.4", "230394", "003.1", "W*6A">>
EMPTY_LINE == <<>>

Lines == {GGA_FULL, GGA_SOUTHWEST, GGA_NOFIX, GGA_SHORT, RMC_10, RMC_20, RMC_NOSPEED, GSV_OTHER, EMPTY_LINE,
          GGA_BADLAT, GGA_BADALT, RMC_BADKNOTS}

\* float(text), in thousandths, for the texts the sensor lines carry
FloatTable == [t \in {"4807.038", "01131.000", "545.4", "10.0", "20.0"} |->
    CASE t = "4807.038" -> 4807038
      [] t = "01131.000" -> 1131000
      [] t = "545.4" -> 545400
      [] t = "10.0" -> 10000
      [] t = "20.0" -> 20000]

\* float(text) returns: the text is a number (otherwise float raises ValueError)
IsFloat(t) == t \in DOMAIN FloatTable

\* ------------------------------------------------------------- GPS parser
\* convert_to_decimal raises: float(raw) on a non-empty field that is no number
ConvertRaises(raw, d) == raw # "" /\ d # "" /\ ~IsFloat(raw)

\* parse_gpgga raises: a coordinate or the altitude field is no number
GpggaRaises(p) ==
    /\ Len(p) >= GGA_MIN_FIELDS
    /\ \/ ConvertRaises(p[3], p[4])
       \/ ConvertRaises(p[5], p[6])
       \/ (p[10] # "" /\ ~IsFloat(p[10]))

\* parse_gprmc raises: the knots field is no number
GprmcRaises(p) ==
    Len(p) > RMC_KNOTS_INDEX /\ p[RMC_KNOTS_INDEX + 1] # "" /\ ~IsFloat(p[RMC_KNOTS_INDEX + 1])

\* convert_to_decimal: None for an empty field, else signed degrees (in millionths)
convert_to_decimal(raw, d) ==
    IF raw = "" \/ d = "" THEN None
    ELSE LET f == FloatTable[raw]
             deg == f \div 100000
             minutes == f - deg * 100000
         IN  Some((IF d \in {"S", "W"} THEN -1 ELSE 1) * (deg * 1000000 + (minutes * 1000) \div 60))

\* parse_gpgga: None, or the tuple (lat, lon, alt) as a record inside Some
parse_gpgga(p) ==
    IF Len(p) < GGA_MIN_FIELDS THEN None
    ELSE Some([lat |-> convert_to_decimal(p[3], p[4]),
               lon |-> convert_to_decimal(p[5], p[6]),
               alt |-> IF p[10] # "" THEN Some(FloatTable[p[10]]) ELSE None])

\* parse_gprmc: knots * 1.852, or None
parse_gprmc(p) ==
    IF Len(p) > RMC_KNOTS_INDEX /\ p[RMC_KNOTS_INDEX + 1] # ""
    THEN Some((FloatTable[p[RMC_KNOTS_INDEX + 1]] * KNOTS_FACTOR) \div 1000)
    ELSE None

\* p[7] of a speed sentence is there and not empty
HasKnots(p) == Len(p) > RMC_KNOTS_INDEX /\ p[RMC_KNOTS_INDEX + 1] # ""

IsSpeedHeader(hdr) == hdr \in {"$GPRMC", "$GNRMC"}
EndsWithGGA(hdr) == hdr \in {"$GPGGA", "$GNGGA"}

UpdateSpeed_KeepFirst(ls, sp) == IF ls = None THEN sp ELSE ls

\* if sp is not None: last_speed = sp
UpdateSpeed(ls, sp) == IF sp # None THEN sp ELSE ls

\* spd = last_speed or 0.0
SpeedOrZero(ls) == IF ls = None \/ ls = Some(0) THEN Some(0) ELSE ls


\* ------------------------------------------------------------- state
VARIABLES
    pc,          \* position of the main program
    ret,         \* where flush_buffer_to_db returns to, "none" outside it
    cause,       \* why the loop ended ("none" while it runs)
    db,          \* global db: "none", "open" or "closed"
    cursor,      \* global cursor: "none", "set" (a cursor of db) or "closed"
    sink,        \* timestamps committed in table gnss_data
    bufExists,   \* os.path.exists(BUFFER_FILE)
    buffer,      \* rows of BUFFER_FILE, first row first
    tmp,         \* rows of the mkstemp file of save_to_buffer
    last_speed,  \* last_speed of the main loop
    elapsed,     \* time.time() - last_flush, capped at FLUSH_INTERVAL
    nextTs,      \* the next value of datetime.utcnow()
    fix,         \* ts, lat, lon, alt, spd of the position being handled
    rows,        \* flush_buffer_to_db: rows
    remaining,   \* flush_buffer_to_db: remaining
    success,     \* flush_buffer_to_db: success
    healthy,     \* network, database, inserts and commits no longer fail
    hist         \* what happened to the current fix and in the current replay pass

vars == <<pc, ret, cause, db, cursor, sink, bufExists, buffer, tmp, last_speed,
          elapsed, nextTs, fix, rows, remaining, success, healthy, hist>>

NoFix == [ts |-> 0, lat |-> None, lon |-> None, alt |-> None, spd |-> None]

NoPass == [entered |-> FALSE, entryEmpty |-> FALSE, commit |-> "none",
           ins |-> {}, dups |-> {}, calls |-> {}, skipped |-> {}, handed |-> {},
           failed |-> {}]

\* no call of connect_db() in the last step
NoConn == [called |-> FALSE, online |-> FALSE, shake |-> FALSE, installed |-> FALSE,
           prev |-> "none"]

HistInit == [liveDone |-> FALSE, appended |-> FALSE, discarded |-> FALSE,
             sbOld |-> <<>>, sbExisted |-> FALSE, pass |-> NoPass, done |-> {}, redone |-> FALSE,
             closeTried |-> {}, knots |-> None, liveCalled |-> FALSE,
             ev |-> <<>>, conn |-> NoConn, orphaned |-> FALSE, cursorOwn |-> TRUE]

Range(s) == {s[i] : i \in 1..Len(s)}
TsOf(s) == {s[i].ts : i \in 1..Len(s)}

\* ------------------------------------------------------------- buffer encoding
\* x or "": None and 0.0 become the empty string
OrEmpty(x) == IF x = None \/ x = Some(0) THEN EmptyStr ELSE x

\* csv.writer: None and "" are written as an empty field, a float as its text
CsvCell(x) == IF x = <<>> THEN EmptyStr ELSE Text(x[1])

\* a cell of the buffer file that is no number: float(r[i]) raises ValueError
BadCell == <<"s", "54?.4">>
CellRaises(c) == c # EmptyStr /\ c[1] # "f"

\* float(r[i]) if r[i] else None
ParseCell(c) == IF c = EmptyStr THEN None ELSE Some(c[2])

\* the values flush_buffer_to_db reads from a row and hands to cursor.execute
DecodeRow(r) == [ts |-> r.ts, lat |-> ParseCell(r.lat), lon |-> ParseCell(r.lon),
                 alt |-> ParseCell(r.alt), spd |-> ParseCell(r.spd)]

\* the row save_to_buffer writes
EncodeRow(f) == [ts |-> f.ts, lat |-> CsvCell(f.lat), lon |-> CsvCell(f.lon),
                 alt |-> CsvCell(OrEmpty(f.alt)), spd |-> CsvCell(OrEmpty(f.spd))]

\* a row left in the buffer by an earlier run of the program (timestamp 0)
OldRow == EncodeRow([ts |-> 0, lat |-> Some(48117300), lon |-> Some(11516666),
                     alt |-> Some(545400), spd |-> Some(0)])

\* a row of an earlier run whose altitude cell is damaged
BadRow == [OldRow EXCEPT !.alt = BadCell]

Init ==
    /\ pc = "start"
    /\ ret = "none"
    /\ cause = "none"
    /\ db = "none"
    /\ cursor = "none"
    /\ \E stored \in BOOLEAN, left \in {"absent", "empty", "row", "bad"} :
          /\ stored => left = "row"
          /\ sink = IF stored THEN {0} ELSE {}
          /\ bufExists = (left # "absent")
          /\ buffer = IF left = "row" THEN <<OldRow>>
                      ELSE IF left = "bad" THEN <<BadRow>> ELSE <<>>
    /\ tmp = <<>>
    /\ last_speed = None
    /\ elapsed = 0
    /\ nextTs = 1
    /\ fix = NoFix
    /\ rows = <<>>
    /\ remaining = <<>>
    /\ success = 0
    /\ healthy = FALSE
    /\ hist = HistInit


\* ------------------------------------------------------------- time
\* the time that passes in one turn of the loop (the read with its timeout, the
\* parsing, the database calls)
ReadTimes == {MaxTick}

\* ------------------------------------------------------------- fault outcomes
\* is_online(), psycopg2.connect(): TRUE is success
ProbeResults == IF healthy THEN {TRUE} ELSE BOOLEAN
HandshakeResults == IF healthy THEN {TRUE} ELSE BOOLEAN
\* a statement or commit: "ok", "reject" (raises, connection stays open),
\* "lost" (raises, the connection is closed afterwards)
SinkFaults == IF healthy THEN {"ok"} ELSE {"ok", "reject", "lost"}
\* os.replace: TRUE is success
ReplaceResults == BOOLEAN
\* the outcomes of the INSERTs of a replay pass over n rows; only a call on an
\* open connection has an outcome of its own (on a closed one it raises)
FaultVectors(n, isOpen) ==
    {f \in [1..n -> SinkFaults] :
        \A i \in 1..n : (~isOpen \/ \E j \in 1..(i - 1) : f[j] = "lost") => f[i] = "ok"}
\* the outcome of db.commit(), if it is called on an open connection
CommitFaults(called) == IF called THEN SinkFaults ELSE {"ok"}

\* ------------------------------------------------------------- save_to_buffer
\* mutant: the guard is missing
SaveDiscards_Never(lat, lon) == FALSE

\* the guard of save_to_buffer: the record is discarded
SaveDiscards(lat, lon) == lat = None \/ lon = None

\* tempfile.mkstemp: a new, empty file beside the buffer file
SbMkstemp(fs) == [fs EXCEPT !.tmp = <<>>]

\* mutant: the new row is written over the buffer file itself
SbWriteRow_InPlace(fs, row) == [fs EXCEPT !.buf = <<row>>, !.exists = TRUE]

\* csv.writer(f).writerow(...): the new row goes to the temporary file
SbWriteRow(fs, row) == [fs EXCEPT !.tmp = Append(@, row)]

\* for row in old: f.write(row)
SbCopyOld(fs) == [fs EXCEPT !.tmp = IF fs.exists THEN @ \o fs.buf ELSE @]

\* os.replace(tmp, BUFFER_FILE)
SbReplace(fs) == [fs EXCEPT !.buf = fs.tmp, !.exists = TRUE, !.tmp = <<>>]

\* ------------------------------------------------------------- flush_buffer_to_db
\* the two early returns of flush_buffer_to_db
FlushIsNoop(exists, content) == ~exists \/ content = <<>>

\* db.rollback() in safe_rollback: the pending inserts of the transaction are undone
SafeRollback(pending) == {}

\* mutant: the row that failed is not kept
OnFlushError_Dropped(acc, r, fault) ==
    [acc EXCEPT !.pending = SafeRollback(@),
                !.open = @ /\ fault # "lost",
                !.calls = IF fault = "decode" THEN @ ELSE @ \cup {r.ts},
                !.handed = IF fault = "decode" THEN @ ELSE @ \cup {DecodeRow(r)},
                !.failed = @ \cup {r.ts}]

\* the except branch of the row loop, entered by float() ("decode": no call of
\* cursor.execute was made) or by cursor.execute
OnFlushError(acc, r, fault) ==
    [acc EXCEPT !.pending = SafeRollback(@),
                !.remaining = Append(@, r),
                !.open = @ /\ fault # "lost",
                !.calls = IF fault = "decode" THEN @ ELSE @ \cup {r.ts},
                !.handed = IF fault = "decode" THEN @ ELSE @ \cup {DecodeRow(r)},
                !.failed = @ \cup {r.ts}]

\* mutant: a duplicate is counted as a success
OnDuplicate_Counted(acc, r) ==
    [acc EXCEPT !.success = @ + 1, !.dups = @ \cup {r.ts}, !.calls = @ \cup {r.ts},
                !.handed = @ \cup {DecodeRow(r)}]

\* cursor.rowcount is 0: ON CONFLICT (timestamp) DO NOTHING met a stored timestamp
OnDuplicate(acc, r) ==
    [acc EXCEPT !.dups = @ \cup {r.ts}, !.calls = @ \cup {r.ts},
                !.handed = @ \cup {DecodeRow(r)}]

\* mutant: an inserted row is kept in remaining
OnInserted_Kept(acc, r) ==
    [acc EXCEPT !.success = @ + 1,
                !.pending = @ \cup {r.ts},
                !.ins = @ \cup {r.ts},
                !.calls = @ \cup {r.ts},
                !.handed = @ \cup {DecodeRow(r)},
                !.remaining = Append(@, r)]

\* cursor.rowcount is 1: the row is inserted in the open transaction
OnInserted(acc, r) ==
    [acc EXCEPT !.success = @ + 1,
                !.pending = @ \cup {r.ts},
                !.ins = @ \cup {r.ts},
                !.calls = @ \cup {r.ts},
                !.handed = @ \cup {DecodeRow(r)}]

\* one turn of "for r in rows"
ReplayRow(acc, r, fault, stored) ==
    IF CellRaises(r.lat) \/ CellRaises(r.lon) THEN OnFlushError(acc, r, "decode")
    ELSE IF ParseCell(r.lat) = None \/ ParseCell(r.lon) = None
    THEN [acc EXCEPT !.skipped = @ \cup {r.ts}]
    ELSE IF CellRaises(r.alt) \/ CellRaises(r.spd) THEN OnFlushError(acc, r, "decode")
    ELSE IF ~acc.open \/ fault # "ok" THEN OnFlushError(acc, r, fault)
    ELSE IF r.ts \in stored \cup acc.pending THEN OnDuplicate(acc, r)
    ELSE OnInserted(acc, r)

RECURSIVE ReplayFrom(_, _, _, _, _)
ReplayFrom(rws, faults, i, stored, acc) ==
    IF i > Len(rws) THEN acc
    ELSE ReplayFrom(rws, faults, i + 1, stored, ReplayRow(acc, rws[i], faults[i], stored))

ReplayStart(isOpen) ==
    [success |-> 0, remaining |-> <<>>, pending |-> {}, open |-> isOpen,
     ins |-> {}, dups |-> {}, calls |-> {}, skipped |-> {}, handed |-> {},
     failed |-> {}]

\* mutant: a failed commit leaves remaining as the row loop computed it
RemainingAfterCommit_Unchanged(committed, rws, rem) == rem

\* remaining after "if success:": a failed commit keeps every row
RemainingAfterCommit(committed, rws, rem) == IF committed THEN rem ELSE rws

\* open(BUFFER_FILE, "w"): the file is created or truncated
WbOpen(fs) == [fs EXCEPT !.buf = <<>>, !.exists = TRUE]

\* csv.writer(f).writerows(remaining), one row
WbWriteRow(fs, row) == [fs EXCEPT !.buf = Append(@, row)]

Fs == [buf |-> buffer, exists |-> bufExists, tmp |-> tmp]

SetFs(fs) ==
    /\ buffer' = fs.buf
    /\ bufExists' = fs.exists
    /\ tmp' = fs.tmp


\* ------------------------------------------------------------- connect_db
\* mutant: the previous connection is not closed
CloseOld_Skip(d) == d

\* db.close() of the previous connection, "if db"
CloseOld(d) == IF d = "none" THEN "none" ELSE "closed"

\* cursor.execute can work: there is a cursor and its connection is open
Usable == cursor = "set" /\ db = "open"

\* mutant: psycopg2.connect is called whatever the probe said
Handshakes_Always(online) == TRUE

\* lines 70-72: psycopg2.connect is reached only when is_online() returned True
Handshakes(online) == online

\* connect_db().  Probe failure: return.  Handshake failure: psycopg2.connect
\* raises after the old connection was closed; control goes to failpc.  Success:
\* new db and a cursor of it, then flush_buffer_to_db().  h is hist with the
\* caller's own notes; conn notes what this call did, orphaned whether the
\* connection that db referred to was still open when db was reassigned.
ConnectDb(retpc, failpc, h) ==
    \E online \in ProbeResults, shaken \in HandshakeResults :
        LET c == [called |-> TRUE, online |-> online, shake |-> Handshakes(online),
                  installed |-> Handshakes(online) /\ shaken, prev |-> db]
        IN  IF ~Handshakes(online)
            THEN /\ pc' = retpc
                 /\ hist' = [h EXCEPT !.conn = c]
                 /\ UNCHANGED <<db, cursor, ret, cause>>
            ELSE IF ~shaken
            THEN /\ db' = CloseOld(db)
                 /\ pc' = failpc
                 /\ cause' = IF failpc \in {"terminated", "crashed"} THEN "handshake" ELSE cause
                 /\ hist' = [h EXCEPT !.conn = c]
                 /\ UNCHANGED <<cursor, ret>>
            ELSE /\ db' = "open"
                 /\ cursor' = "set"
                 /\ pc' = "flush"
                 /\ ret' = retpc
                 /\ hist' = [h EXCEPT !.conn = c,
                                      !.orphaned = @ \/ CloseOld(db) = "open",
                                      !.cursorOwn = TRUE]
                 /\ UNCHANGED cause

\* ------------------------------------------------------------- main program
\* line 175: connect_db() before the loop, outside the try: an error of it ends
\* the process without the finally block
Startup ==
    /\ pc = "start"
    /\ ConnectDb("read", "crashed", hist)
    /\ UNCHANGED <<sink, bufExists, buffer, tmp, last_speed, elapsed, nextTs, fix,
                   rows, remaining, success, healthy>>

\* lines 181-199: read a line, dispatch on its header, parse; a ValueError of
\* float() is caught nowhere and ends the loop
ReadLine ==
    /\ pc = "read"
    /\ \E line \in Lines, d \in ReadTimes :
          LET hdr == line[1]
              isSpeed == line # EMPTY_LINE /\ IsSpeedHeader(hdr)
              isPos == line # EMPTY_LINE /\ ~isSpeed /\ EndsWithGGA(hdr)
              raises == (isSpeed /\ GprmcRaises(line)) \/ (isPos /\ GpggaRaises(line))
              data == parse_gpgga(line)
              parsed == isPos /\ ~raises /\ data # None
          IN  /\ parsed => nextTs <= MaxFix
              /\ elapsed' = Min(elapsed + d, FLUSH_INTERVAL)
              /\ last_speed' = IF isSpeed /\ ~raises
                               THEN UpdateSpeed(last_speed, parse_gprmc(line))
                               ELSE last_speed
              /\ fix' = IF parsed
                        THEN [ts |-> nextTs, lat |-> data[1].lat, lon |-> data[1].lon,
                              alt |-> data[1].alt, spd |-> SpeedOrZero(last_speed)]
                        ELSE NoFix
              /\ nextTs' = IF parsed THEN nextTs + 1 ELSE nextTs
              /\ pc' = IF raises THEN "terminated"
                       ELSE IF line = EMPTY_LINE \/ isSpeed \/ (isPos /\ ~parsed) THEN "read"
                       ELSE IF parsed THEN "live" ELSE "periodic"
              /\ cause' = IF raises THEN "parse" ELSE cause
              /\ hist' = [hist EXCEPT !.liveDone = FALSE, !.appended = FALSE,
                                      !.discarded = FALSE, !.sbOld = <<>>,
                                      !.sbExisted = FALSE,
                                      !.liveCalled = FALSE, !.ev = <<>>,
                                      !.conn = NoConn,
                                      !.knots = IF isSpeed /\ ~raises /\ HasKnots(line)
                                                THEN Some(line[RMC_KNOTS_INDEX + 1])
                                                ELSE hist.knots]
    /\ UNCHANGED <<ret, db, cursor, sink, bufExists, buffer, tmp,
                   rows, remaining, success, healthy>>

\* lines 201-202: reconnect when there is no usable cursor
LiveCheck ==
    /\ pc = "live"
    /\ IF cursor = "none" \/ db # "open"
       THEN ConnectDb("live_exec", "fallback", hist)
       ELSE /\ pc' = "live_exec"
            /\ UNCHANGED <<db, cursor, ret, cause, hist>>
    /\ UNCHANGED <<sink, bufExists, buffer, tmp, last_speed, elapsed, nextTs, fix,
                   rows, remaining, success, healthy>>

\* lines 203-210: the live INSERT and db.commit(), then flush_buffer_to_db()
LiveExec ==
    /\ pc = "live_exec"
    /\ \E fault \in SinkFaults :
          IF Usable /\ fault = "ok" /\ fix.ts \notin sink
          THEN /\ sink' = sink \cup {fix.ts}
               /\ hist' = [hist EXCEPT !.liveDone = TRUE, !.liveCalled = TRUE,
                                       !.conn = NoConn]
               /\ pc' = "flush"
               /\ ret' = "periodic"
               /\ UNCHANGED db
          ELSE /\ pc' = "fallback"
               /\ db' = IF Usable /\ fault = "lost" THEN "closed" ELSE db
               /\ hist' = [hist EXCEPT !.liveCalled = (cursor # "none"),
                                       !.conn = NoConn]
               /\ UNCHANGED <<sink, ret>>
    /\ UNCHANGED <<cause, cursor, bufExists, buffer, tmp, last_speed, elapsed, nextTs,
                   fix, rows, remaining, success, healthy>>

\* db.rollback() in safe_rollback returns or raises; it is called only on an
\* open connection
RollbackResults(d) == IF d = "open" THEN {"rollback", "rollback_failed"} ELSE {"rollback"}

\* mutant: the handler goes on to connect_db() without save_to_buffer
AfterRollback_SkipAppend(discard) == "reconnect"

\* lines 213-214: after safe_rollback() comes save_to_buffer, which returns at
\* once for a record it discards
AfterRollback(discard) == IF discard THEN "reconnect" ELSE "sb_mkstemp"

\* lines 211-214 and 110-113: safe_rollback(), whose own error is swallowed,
\* then save_to_buffer up to its guard
Fallback ==
    /\ pc = "fallback"
    /\ \E rb \in RollbackResults(db) :
          LET discard == SaveDiscards(fix.lat, fix.lon)
          IN  /\ hist' = [hist EXCEPT !.discarded = discard, !.sbOld = buffer,
                                      !.sbExisted = bufExists, !.conn = NoConn,
                                      !.ev = IF discard THEN <<rb, "append">> ELSE <<rb>>]
              /\ pc' = AfterRollback(discard)
    /\ UNCHANGED <<ret, cause, db, cursor, sink, bufExists, buffer, tmp, last_speed,
                   elapsed, nextTs, fix, rows, remaining, success, healthy>>

\* line 114
SbMkstempStep ==
    /\ pc = "sb_mkstemp"
    /\ SetFs(SbMkstemp(Fs))
    /\ pc' = "sb_writerow"
    /\ UNCHANGED <<ret, cause, db, cursor, sink, last_speed, elapsed, nextTs, fix,
                   rows, remaining, success, healthy, hist>>

\* lines 116-117
SbWriteRowStep ==
    /\ pc = "sb_writerow"
    /\ SetFs(SbWriteRow(Fs, EncodeRow(fix)))
    /\ pc' = "sb_copy"
    /\ UNCHANGED <<ret, cause, db, cursor, sink, last_speed, elapsed, nextTs, fix,
                   rows, remaining, success, healthy, hist>>

\* lines 118-120
SbCopyStep ==
    /\ pc = "sb_copy"
    /\ SetFs(SbCopyOld(Fs))
    /\ pc' = "sb_replace"
    /\ UNCHANGED <<ret, cause, db, cursor, sink, last_speed, elapsed, nextTs, fix,
                   rows, remaining, success, healthy, hist>>

\* line 121: os.replace; its failure propagates out of the except handler
SbReplaceStep ==
    /\ pc = "sb_replace"
    /\ \E ok \in ReplaceResults :
          IF ok
          THEN /\ SetFs(SbReplace(Fs))
               /\ hist' = [hist EXCEPT !.appended = TRUE, !.ev = Append(@, "append")]
               /\ pc' = "reconnect"
               /\ UNCHANGED cause
          ELSE /\ pc' = "terminated"
               /\ cause' = "bufferio"
               /\ UNCHANGED <<bufExists, buffer, tmp, hist>>
    /\ UNCHANGED <<ret, db, cursor, sink, last_speed, elapsed, nextTs, fix,
                   rows, remaining, success, healthy>>

\* line 215: connect_db() inside the except handler
Reconnect ==
    /\ pc = "reconnect"
    /\ ConnectDb("periodic", "terminated", [hist EXCEPT !.ev = Append(@, "connect")])
    /\ UNCHANGED <<sink, bufExists, buffer, tmp, last_speed, elapsed, nextTs, fix,
                   rows, remaining, success, healthy>>

\* lines 218-221: the periodic check; SELECT 1, then flush_buffer_to_db()
Periodic ==
    /\ pc = "periodic"
    /\ IF elapsed >= FLUSH_INTERVAL
       THEN \E fault \in SinkFaults :
               IF Usable /\ fault = "ok"
               THEN /\ pc' = "flush"
                    /\ ret' = "tick"
                    /\ UNCHANGED db
               ELSE /\ pc' = "periodic_connect"
                    /\ db' = IF Usable /\ fault = "lost" THEN "closed" ELSE db
                    /\ UNCHANGED ret
       ELSE /\ pc' = "read"
            /\ UNCHANGED <<db, ret>>
    /\ hist' = [hist EXCEPT !.conn = NoConn]
    /\ UNCHANGED <<cause, cursor, sink, bufExists, buffer, tmp, last_speed, elapsed,
                   nextTs, fix, rows, remaining, success, healthy>>

\* lines 222-223: SELECT 1 raised; connect_db() inside the except handler
PeriodicConnect ==
    /\ pc = "periodic_connect"
    /\ ConnectDb("tick", "terminated", hist)
    /\ UNCHANGED <<sink, bufExists, buffer, tmp, last_speed, elapsed, nextTs, fix,
                   rows, remaining, success, healthy>>

\* line 224: last_flush = time.time()
Tick ==
    /\ pc = "tick"
    /\ elapsed' = 0
    /\ pc' = "read"
    /\ hist' = [hist EXCEPT !.conn = NoConn]
    /\ UNCHANGED <<ret, cause, db, cursor, sink, bufExists, buffer, tmp, last_speed,
                   nextTs, fix, rows, remaining, success, healthy>>

\* lines 125-163: the early returns, the row loop and the commit
Flush ==
    /\ pc = "flush"
    /\ IF FlushIsNoop(bufExists, buffer)
       THEN /\ pc' = ret
            /\ ret' = "none"
            /\ hist' = [hist EXCEPT !.conn = NoConn]
            /\ UNCHANGED <<db, sink, rows, remaining, success>>
       ELSE \E faults \in FaultVectors(Len(buffer), Usable) :
             \E cfault \in CommitFaults(ReplayFrom(buffer, faults, 1, sink,
                                                  ReplayStart(Usable)).success > 0
                                       /\ ReplayFrom(buffer, faults, 1, sink,
                                                     ReplayStart(Usable)).open) :
               LET acc == ReplayFrom(buffer, faults, 1, sink, ReplayStart(Usable))
                   tried == acc.success > 0
                   committed == tried /\ acc.open /\ cfault = "ok"
                   openAfter == acc.open /\ ~(tried /\ cfault = "lost")
               IN  /\ rows' = buffer
                   /\ success' = acc.success
                   /\ remaining' = IF tried
                                   THEN RemainingAfterCommit(committed, buffer, acc.remaining)
                                   ELSE acc.remaining
                   /\ sink' = IF committed THEN sink \cup acc.pending ELSE sink
                   /\ db' = IF openAfter THEN db ELSE CloseOld(db)
                   /\ hist' = [hist EXCEPT
                         !.conn = NoConn,
                         !.pass = [entered |-> TRUE,
                                   entryEmpty |-> (~bufExists \/ buffer = <<>>),
                                   commit |-> IF ~tried THEN "none"
                                              ELSE IF committed THEN "ok" ELSE "fail",
                                   ins |-> acc.ins, dups |-> acc.dups,
                                   calls |-> acc.calls, skipped |-> acc.skipped,
                                   handed |-> acc.handed, failed |-> acc.failed],
                         !.redone = @ \/ (acc.calls \cap hist.done # {})]
                   /\ pc' = "wb_open"
                   /\ UNCHANGED ret
    /\ UNCHANGED <<cause, cursor, bufExists, buffer, tmp, last_speed, elapsed,
                   nextTs, fix, healthy>>

\* line 165: open(BUFFER_FILE, "w")
WbOpenStep ==
    /\ pc = "wb_open"
    /\ SetFs(WbOpen(Fs))
    /\ pc' = "wb_write"
    /\ UNCHANGED <<ret, cause, db, cursor, sink, last_speed, elapsed, nextTs, fix,
                   rows, remaining, success, healthy, hist>>

\* line 166: writerows(remaining), row by row, then the file is closed
WbWriteStep ==
    /\ pc = "wb_write"
    /\ IF Len(buffer) < Len(remaining)
       THEN /\ SetFs(WbWriteRow(Fs, remaining[Len(buffer) + 1]))
            /\ pc' = "wb_write"
       ELSE /\ pc' = "flush_end"
            /\ UNCHANGED <<bufExists, buffer, tmp>>
    /\ UNCHANGED <<ret, cause, db, cursor, sink, last_speed, elapsed, nextTs, fix,
                   rows, remaining, success, healthy, hist>>

\* line 167, and the return: the locals of flush_buffer_to_db are gone
FlushEnd ==
    /\ pc = "flush_end"
    /\ pc' = ret
    /\ ret' = "none"
    /\ rows' = <<>>
    /\ remaining' = <<>>
    /\ success' = 0
    /\ hist' = [hist EXCEPT !.pass = NoPass,
                  !.done = IF hist.pass.commit = "ok"
                           THEN @ \cup (hist.pass.ins \cap sink) ELSE @]
    /\ UNCHANGED <<cause, db, cursor, sink, bufExists, buffer, tmp, last_speed,
                   elapsed, nextTs, fix, healthy>>

\* the notes on the current turn of the loop, taken away when the loop is left
TurnOver(h) == [h EXCEPT !.conn = NoConn, !.pass = NoPass,
                         !.liveDone = FALSE, !.appended = FALSE, !.discarded = FALSE,
                         !.sbOld = <<>>, !.sbExisted = FALSE, !.liveCalled = FALSE,
                         !.ev = <<>>, !.knots = None]

\* line 226: KeyboardInterrupt, at any point of the loop; the exception unwinds
\* flush_buffer_to_db and the loop, whose variables are read no more
Interrupt ==
    /\ pc \notin {"start", "terminated", "exited", "crashed"}
    /\ pc' = "terminated"
    /\ cause' = "interrupt"
    /\ rows' = <<>>
    /\ remaining' = <<>>
    /\ success' = 0
    /\ ret' = "none"
    /\ last_speed' = None
    /\ elapsed' = 0
    /\ fix' = NoFix
    /\ hist' = TurnOver(hist)
    /\ UNCHANGED <<db, cursor, sink, bufExists, buffer, tmp, nextTs, healthy>>

\* line 181: ser.readline() raises (serial.SerialException); the loop is left
SensorFault ==
    /\ pc = "read"
    /\ pc' = "terminated"
    /\ cause' = "sensor"
    /\ last_speed' = None
    /\ elapsed' = 0
    /\ fix' = NoFix
    /\ hist' = TurnOver(hist)
    /\ UNCHANGED <<ret, db, cursor, sink, bufExists, buffer, tmp, nextTs, rows,
                   remaining, success, healthy>>

\* the finally block: every close returns, or ser.close() raises, or
\* cursor.close() raises
CloseResults == {"ok", "ser_raises", "cursor_raises"}

\* lines 229-231: the close calls the finally block reaches; each statement runs
\* only when the ones before it returned
FinallyTried(res) ==
    {"ser"} \cup (IF res # "ser_raises" /\ cursor # "none" THEN {"cursor"} ELSE {})
            \cup (IF res # "ser_raises" /\ (cursor = "none" \/ res # "cursor_raises")
                     /\ db # "none"
                  THEN {"db"} ELSE {})

\* lines 228-231: the finally block after the loop has ended, and the end of
\* the process: its variables are gone, what stays is the files, the sink and
\* the state of the handles
Finally ==
    /\ pc = "terminated"
    /\ \E res \in CloseResults :
          LET tried == FinallyTried(res)
          IN  /\ hist' = [TurnOver(hist) EXCEPT !.closeTried = tried]
              /\ cursor' = IF "cursor" \in tried /\ res # "cursor_raises"
                           THEN "closed" ELSE cursor
              /\ db' = IF "db" \in tried THEN CloseOld(db) ELSE db
    /\ pc' = "exited"
    /\ last_speed' = None
    /\ elapsed' = 0
    /\ fix' = NoFix
    /\ UNCHANGED <<ret, cause, sink, bufExists, buffer, tmp, nextTs, rows, remaining,
                   success, healthy>>

\* the environment: from now on network and database stay available (seen by
\* the loop from its next turn on)
Stabilise ==
    /\ ~healthy
    /\ pc = "read"
    /\ healthy' = TRUE
    /\ UNCHANGED <<pc, ret, cause, db, cursor, sink, bufExists, buffer, tmp, last_speed,
                   elapsed, nextTs, fix, rows, remaining, success, hist>>

\* the steps of the program itself
Program ==
    \/ Startup \/ ReadLine \/ LiveCheck \/ LiveExec \/ Fallback
    \/ SbMkstempStep \/ SbWriteRowStep \/ SbCopyStep \/ SbReplaceStep
    \/ Reconnect \/ Periodic \/ PeriodicConnect \/ Tick \/ Flush \/ WbOpenStep \/ WbWriteStep \/ FlushEnd
    \/ Finally

Next == Program \/ Interrupt \/ SensorFault \/ Stabilise

Spec == Init /\ [][Next]_vars

\* the loop keeps iterating: a program step that can be taken is taken
FairSpec == Spec /\ WF_vars(Program)


\* ------------------------------------------------------------- properties
LoopEnded == pc \in {"terminated", "exited", "crashed"}
InAppend == pc \in {"sb_mkstemp", "sb_writerow", "sb_copy", "sb_replace"}
InWriteBack == pc \in {"wb_open", "wb_write", "flush_end"}
RowComplete(r) == r.lat # EmptyStr /\ r.lon # EmptyStr

\* C1: at the end of a replay pass every row that was in the buffer before the
\* pass and is no longer in it is committed in the sink.
C1_RemovedRowsAreStored ==
    pc = "flush_end" =>
        \A i \in 1..Len(rows) : rows[i] \notin Range(buffer) => rows[i].ts \in sink

\* C2: under sink faults the loop ends only by an interrupt or a sensor failure
\* (a failure of the buffer file and a line that float() rejects are no sink
\* faults); in particular a failed database handshake in connect_db never ends it.
C2_SinkFaultsNeverEndLoop ==
    cause \in {"none", "interrupt", "sensor", "bufferio", "parse"}

\* C3: at every step of save_to_buffer, and when os.replace fails, the buffer
\* file holds the complete old content; once os.replace succeeded it holds the
\* new row followed by the complete old content.
C3_AppendAtomic ==
    /\ (InAppend \/ (pc = "terminated" /\ cause = "bufferio")) =>
           (buffer = hist.sbOld /\ bufExists = hist.sbExisted)
    /\ (pc = "reconnect" /\ hist.appended) =>
           (buffer = <<EncodeRow(fix)>> \o hist.sbOld /\ bufExists)

W_C3_RenameFailed == pc = "terminated" /\ cause = "bufferio" /\ hist.sbOld # <<>>

\* C4: at every step of the write-back of a replay pass the buffer file holds
\* either the rows it held before the pass or the complete remaining set.
C4_WriteBackAtomic ==
    InWriteBack => (buffer = rows \/ buffer = remaining)

\* C5: a replay pass that inserted at least one row and whose commit failed
\* leaves the buffer with exactly the rows it held before the pass.
C5_FailedCommitKeepsAll ==
    (pc = "flush_end" /\ success > 0 /\ hist.pass.commit = "fail") =>
        (buffer = rows /\ bufExists)

W_C5_FailedCommit ==
    /\ pc = "flush_end" /\ success > 0 /\ hist.pass.commit = "fail"
    /\ Len(rows) >= 2 /\ Len(rows) > success

\* C6: every row of the buffer file, and of the temporary file that replaces it,
\* has latitude and longitude; save_to_buffer called without one of them leaves
\* the buffer file as it was.
C6_BufferRowsHavePosition ==
    /\ \A i \in 1..Len(buffer) : RowComplete(buffer[i])
    /\ \A i \in 1..Len(tmp) : RowComplete(tmp[i])
    /\ (pc = "reconnect" /\ hist.discarded) =>
           (buffer = hist.sbOld /\ bufExists = hist.sbExisted /\ ~hist.appended)

W_C6_Discarded == pc = "reconnect" /\ hist.discarded /\ buffer # <<>>

\* C7: once network and database stay available and inserts and commits succeed,
\* a non-empty buffer is eventually drained into the sink, unless the loop ends.
C7_BacklogEventuallyDrained ==
    (healthy /\ buffer # <<>>) ~> (LoopEnded \/ (buffer = <<>> /\ pc = "read"))

\* C8: when a turn of the loop that produced a fix is over, the fix was either
\* committed by the live insert or appended to the buffer, not both, not neither.
C8_FixConsumedExactlyOnce ==
    (pc = "read" /\ fix # NoFix) => (hist.liveDone # hist.appended)

\* the same for a fix that has latitude and longitude
FixWithPositionConsumedOnce ==
    (pc = "read" /\ fix # NoFix /\ ~SaveDiscards(fix.lat, fix.lon)) =>
        (hist.liveDone # hist.appended)

\* C9: a row that a replay pass inserted and committed (hist.done) is not in the
\* buffer after that pass, and no later replay pass calls the sink for it.
C9_ReplayedRowGone ==
    /\ hist.done \cap TsOf(buffer) = {}
    /\ ~hist.redone

\* the fix was appended, replayed and committed, and replay is called again
W_C9_SecondCall ==
    /\ pc = "flush" /\ ret = "tick"
    /\ hist.appended /\ fix.ts \in hist.done /\ fix.ts \in sink

C11_NoLineEndsLoop == cause # "parse"


\* C12: after the loop has ended and the shutdown sequence has run, a close was
\* attempted on the sensor handle, on the cursor if there is one and on the
\* database connection if there is one, whatever the other closes did.
C12_EveryCloseAttempted ==
    pc = "exited" =>
        /\ "ser" \in hist.closeTried
        /\ cursor # "none" => "cursor" \in hist.closeTried
        /\ db # "none" => "db" \in hist.closeTried


\* C13: the carried speed is the value (knots times the factor) of the most
\* recent speed sentence with a non-empty knots field, None before the first
\* one; the speed of a fix is that value at its position sentence, 0.0 if none;
\* every other line leaves the carried speed unchanged.
KnotsSpeed == IF hist.knots = None THEN None
              ELSE Some((FloatTable[hist.knots[1]] * KNOTS_FACTOR) \div 1000)
C13_SpeedIsMostRecent ==
    /\ ~LoopEnded => last_speed = KnotsSpeed
    /\ fix # NoFix => fix.spd = (IF KnotsSpeed = None THEN Some(0) ELSE KnotsSpeed)
W_C13_SecondSpeedAttached ==
    fix # NoFix /\ fix.lat # None /\ hist.knots = Some("20.0") /\ fix.spd = Some(37040)


\* C14: the values a replay pass hands to the sink for the fix that was just
\* appended are the values of that fix (timestamp, latitude, longitude,
\* altitude, speed).
C14_ReplayHandsAppendedValues ==
    hist.appended =>
        \A h \in hist.pass.handed : h.ts = fix.ts => h = fix


\* C15: no insert call, live or in a replay pass, is made with a null latitude
\* or longitude, and no row without them is written to the buffer.
C15_NoInsertWithoutPosition ==
    /\ hist.liveCalled => fix.lat # None /\ fix.lon # None
    /\ \A h \in hist.pass.handed : h.lat # None /\ h.lon # None
    /\ \A i \in 1..Len(tmp) : RowComplete(tmp[i])


\* C16: once the live insert path has failed, the handler's steps are, in this
\* order, the rollback (failed or not), the append and the connect: connect_db()
\* is called only after save_to_buffer has returned, and then a fix with
\* latitude and longitude is the first row of the buffer file.
C16_RollbackAppendConnect ==
    /\ hist.ev # <<>> =>
          /\ hist.ev[1] \in {"rollback", "rollback_failed"}
          /\ Len(hist.ev) >= 2 => hist.ev[2] = "append"
          /\ Len(hist.ev) >= 3 => hist.ev[3] = "connect" /\ Len(hist.ev) = 3
    /\ pc = "fallback" => hist.ev = <<>>
    /\ pc = "reconnect" =>
          /\ Len(hist.ev) = 2
          /\ ~SaveDiscards(fix.lat, fix.lon) =>
                bufExists /\ buffer # <<>> /\ buffer[1] = EncodeRow(fix)
W_C16_AfterFailedRollback ==
    hist.ev = <<"rollback_failed", "append", "connect">> /\ hist.appended


\* C17: a turn of the loop that has read a line with the flush interval elapsed
\* does not go back to reading without the periodic check: no step of ReadLine
\* returns to the read with the timer expired.
C17_ExpiredTimerIsServiced ==
    [][ReadLine => (pc' = "read" => elapsed' < FLUSH_INTERVAL)]_vars


\* C18: at the end of a replay pass every row whose decoding or insert failed
\* is in the buffer file that was written back, and every row of the pass with
\* latitude and longitude, those after a failed row included, was decoded and
\* handed to the sink or failed itself.
C18_FailedRowKeptPassGoesOn ==
    pc = "flush_end" =>
        \A i \in 1..Len(rows) :
            /\ rows[i].ts \in hist.pass.failed => rows[i] \in Range(buffer)
            /\ RowComplete(rows[i]) => rows[i].ts \in hist.pass.calls \cup hist.pass.failed
W_C18_FailedThenAttempted ==
    /\ pc = "flush_end" /\ Len(rows) = 2
    /\ rows[1].ts \in hist.pass.failed /\ rows[2].ts \in hist.pass.calls


\* C19: a step in which connect_db() was called and the reachability probe
\* failed makes no handshake and starts no replay, and leaves db, cursor and
\* the buffer file as they were.
C19_OfflineConnectIsNoop ==
    [][(hist'.conn.called /\ ~hist'.conn.online) =>
          /\ ~hist'.conn.shake /\ ~hist'.conn.installed
          /\ pc' # "flush"
          /\ db' = db /\ cursor' = cursor
          /\ buffer' = buffer /\ bufExists' = bufExists /\ tmp' = tmp]_vars
W_C19_OfflineWithSession ==
    /\ hist.conn.called /\ ~hist.conn.online
    /\ db = "open" /\ cursor = "set" /\ buffer # <<>>

\* C20: at most one database session is live (the one db refers to, or one
\* that was replaced without a close), db and cursor are both there or both
\* None, an open db has a cursor, and the cursor is a cursor of db.
LiveSessions == (IF db = "open" THEN 1 ELSE 0) + (IF hist.orphaned THEN 1 ELSE 0)
C20_OneSessionCursorOfDb ==
    /\ LiveSessions <= 1
    /\ (db = "none") = (cursor = "none")
    /\ db = "open" => cursor = "set"
    /\ cursor # "none" => hist.cursorOwn
W_C20_SessionReplaced ==
    /\ hist.conn.installed /\ hist.conn.prev = "open"
    /\ db = "open" /\ cursor = "set"

====
